---------------------------- MODULE Spec2Model ----------------------------
(***************************************************************************)
(* Model of src/llmq/snapshot.cpp: BuildQuorumRotationInfo,                *)
(* GetLastBaseBlockHash and CQuorumSnapshotManager's GetSnapshotForBlock / *)
(* StoreSnapshotForBlock, with the four mutexes the code takes             *)
(* (snapshotCacheCs, cs_main, evoDb.cs, deterministicMNManager->cs).       *)
(*                                                                         *)
(* A block index entry (a CBlockIndex) is a non-zero integer, nullptr is 0.*)
(* Blocks of the active chain have positive ids, blocks of a side branch   *)
(* negative ids.  A hash (uint256) is an integer, the default-constructed  *)
(* uint256 is 0.                                                           *)
(***************************************************************************)
EXTENDS Integers, Sequences, FiniteSets, TLC

(***************************************************************************)
(* Bounds of the model.                                                    *)
(***************************************************************************)
\* highest tip height of the chains explored
MaxHeight == 7
\* longest side branch explored (blocks above the fork point)
MaxFork == 3
\* longest baseBlockHashes list of a request
MaxBaseLen == 2
\* calls made, by all threads together, in the concurrent specification
MaxOps == 3

\* the null CBlockIndex pointer
nullptr == 0
\* the default-constructed uint256 (uint256 hash;)
ZeroHash == 0
\* the limit on request.baseBlockHashesNb
MaxBaseBlockHashesNb == 4

\* Params().GetConsensus().llmqTypeInstantSend, and one other quorum type
llmqTypeInstantSend == 1
LLMQTypes == {llmqTypeInstantSend, llmqTypeInstantSend + 1}
\* llmqParams.dkgInterval, scaled down
cycleLength == 2

Threads == {"t1", "t2"}
NoThread == "none"

Max(a, b) == IF a >= b THEN a ELSE b
Last(s) == s[Len(s)]

(***************************************************************************)
(* The chain view: mapBlockIndex and ::ChainActive().                      *)
(* MkChain(T, f, k): active chain of heights 0..T (T = -1: no block at     *)
(* all), and a side branch of k blocks forking off the active block at     *)
(* height f.                                                               *)
(***************************************************************************)
MainId(h) == h + 1
ForkId(h) == 0 - (h + 1)

MkChain(T, f, k) ==
    LET main == {MainId(h) : h \in 0..T}
        side == {ForkId(h) : h \in (f + 1)..(f + k)}
        all  == main \cup side
    IN  [ blocks  |-> all,
          nHeight |-> [b \in all |-> IF b > 0 THEN b - 1 ELSE (0 - b) - 1],
          pprev   |-> [b \in all |->
                         IF b > 0 THEN (IF b = MainId(0) THEN nullptr ELSE b - 1)
                         ELSE IF (0 - b) - 1 = f + 1 THEN MainId(f) ELSE b + 1],
          hash    |-> [b \in all |-> IF b > 0 THEN 2 * b + 1 ELSE (0 - 2) * b],
          tip     |-> IF T >= 0 THEN MainId(T) ELSE nullptr ]

\* CBlockIndex::GetAncestor(height)
RECURSIVE WalkBack(_, _, _)
WalkBack(ch, b, height) ==
    IF ch.nHeight[b] = height THEN b ELSE WalkBack(ch, ch.pprev[b], height)

GetAncestor(ch, b, height) ==
    IF height > ch.nHeight[b] \/ height < 0 THEN nullptr
    ELSE WalkBack(ch, b, height)

\* CBlockIndex::GetBlockHash()
GetBlockHash(ch, b) == ch.hash[b]

\* LookupBlockIndex(hash)
LookupBlockIndex(ch, hash) ==
    IF \E b \in ch.blocks : ch.hash[b] = hash
    THEN CHOOSE b \in ch.blocks : ch.hash[b] = hash
    ELSE nullptr

\* ::ChainActive().Tip(), .Genesis(), .Contains(pindex)
Tip(ch) == ch.tip
Genesis(ch) == IF ch.tip = nullptr THEN nullptr ELSE GetAncestor(ch, ch.tip, 0)
Contains(ch, b) ==
    /\ ch.tip # nullptr
    /\ GetAncestor(ch, ch.tip, ch.nHeight[b]) = b

(***************************************************************************)
(* Values.                                                                 *)
(***************************************************************************)
\* CQuorumSnapshot snapshot = {};
EmptySnapshot ==
    [activeQuorumMembers |-> <<>>, mnSkipListMode |-> 0, mnSkipList |-> <<>>]
\* a snapshot that names the block it was taken at
MkSnapshot(n) ==
    [activeQuorumMembers |-> <<TRUE, FALSE>>, mnSkipListMode |-> 1, mnSkipList |-> <<n>>]
\* a default-constructed CSimplifiedMNListDiff, and the one built from..to
NoDiff == [baseBlockHash |-> ZeroHash, blockHash |-> ZeroHash]
MkDiff(from, to) == [baseBlockHash |-> from, blockHash |-> to]
\* a freshly constructed CQuorumRotationInfo (creationHeight -1: not set)
EmptyResponse ==
    [ creationHeight |-> 0 - 1,
      quorumSnapshotAtHMinusC  |-> EmptySnapshot,
      quorumSnapshotAtHMinus2C |-> EmptySnapshot,
      quorumSnapshotAtHMinus3C |-> EmptySnapshot,
      mnListDiffTip        |-> NoDiff,
      mnListDiffAtHMinusC  |-> NoDiff,
      mnListDiffAtHMinus2C |-> NoDiff,
      mnListDiffAtHMinus3C |-> NoDiff ]
NoRequest == [baseBlockHashesNb |-> 0, baseBlockHashes |-> <<>>, blockRequestHash |-> ZeroHash]
NoLocals ==
    [ baseBlockIndexes |-> <<>>, tipBlockIndex |-> nullptr, blockIndex |-> nullptr,
      hBlockIndex |-> nullptr, pBlockHMinusCIndex |-> nullptr,
      pBlockHMinus2CIndex |-> nullptr, pBlockHMinus3CIndex |-> nullptr ]
\* the arguments and locals of a GetSnapshotForBlock / StoreSnapshotForBlock call
NoSnapCall ==
    [ op |-> "none", llmqType |-> llmqTypeInstantSend, pindex |-> nullptr,
      snapshot |-> EmptySnapshot, result |-> <<>>, retpc |-> "idle" ]

\* the messages written to errorRet
ErrInvalidNb    == <<"invalid requested baseBlockHashesNb">>
ErrMismatch     == <<"missmatch requested baseBlockHashesNb and size(baseBlockHashes)">>
ErrGenesis      == <<"genesis block not found">>
ErrBaseNotFound(hash)  == <<"block %s not found", hash>>
ErrNotInChain(hash)    == <<"block %s is not in the active chain", hash>>
ErrTip          == <<"tip block not found">>
ErrTarget       == <<"block not found">>
ErrBlockH       == <<"Can not find block H">>
ErrBlockHMinusC  == <<"Can not find block H-C">>
ErrBlockHMinus2C == <<"Can not find block H-2C">>
ErrBlockHMinus3C == <<"Can not find block H-3C">>
ErrSnapshotHMinusC  == <<"Can not find quorum snapshot at H-C">>
ErrSnapshotHMinus2C == <<"Can not find quorum snapshot at H-C">>
ErrSnapshotHMinus3C == <<"Can not find quorum snapshot at H-C">>
\* what BuildSimplifiedMNListDiff leaves in errorRet when it fails
ErrDiff(from, to) == <<"BuildSimplifiedMNListDiff failed", from, to>>
NoError == <<>>

(***************************************************************************)
(* Pure parts of BuildQuorumRotationInfo.                                  *)
(***************************************************************************)
\* ValidateRequest with the two checks in the other order
ValidateRequestSwapped(req) ==
    IF req.baseBlockHashesNb # Len(req.baseBlockHashes)
    THEN <<"missmatch requested baseBlockHashesNb and size(baseBlockHashes)">>
    ELSE IF req.baseBlockHashesNb > MaxBaseBlockHashesNb
    THEN <<"invalid requested baseBlockHashesNb">>
    ELSE <<>>

\* lines 85-93: the message of the failing check, NoError when both pass
ValidateRequest(req) ==
    IF req.baseBlockHashesNb > MaxBaseBlockHashesNb THEN ErrInvalidNb
    ELSE IF req.baseBlockHashesNb # Len(req.baseBlockHashes) THEN ErrMismatch
    ELSE NoError

\* std::sort(..., a->nHeight < b->nHeight)
RECURSIVE InsertByHeight(_, _, _)
InsertByHeight(ch, s, b) ==
    IF s = <<>> THEN <<b>>
    ELSE IF ch.nHeight[b] < ch.nHeight[Head(s)] THEN <<b>> \o s
    ELSE <<Head(s)>> \o InsertByHeight(ch, Tail(s), b)

\* SortByHeight leaving the list in request order
SortByHeightNone(ch, s) == s

RECURSIVE SortByHeight(_, _)
SortByHeight(ch, s) ==
    IF s = <<>> THEN <<>>
    ELSE InsertByHeight(ch, SortByHeight(ch, SubSeq(s, 1, Len(s) - 1)), Last(s))

\* lines 110-121: the loop over request.baseBlockHashes from position i on,
\* with the indexes pushed so far and the calls made so far
RECURSIVE ResolveLoop(_, _, _, _, _)
ResolveLoop(ch, hashes, i, acc, log) ==
    IF i > Len(hashes) THEN [err |-> NoError, idx |-> acc, log |-> log]
    ELSE LET blockHash  == hashes[i]
             blockIndex == LookupBlockIndex(ch, blockHash)
             log1 == Append(log, <<"LookupBlockIndex", blockHash>>)
             log2 == Append(log1, <<"Contains", blockIndex>>)
         IN  IF blockIndex = nullptr
             THEN [err |-> ErrBaseNotFound(blockHash), idx |-> acc, log |-> log1]
             ELSE IF ~Contains(ch, blockIndex)
             THEN [err |-> ErrNotInChain(blockHash), idx |-> acc, log |-> log2]
             ELSE ResolveLoop(ch, hashes, i + 1, Append(acc, blockIndex), log2)

\* lines 100-125
ResolveBaseBlocks(ch, req) ==
    IF req.baseBlockHashesNb = 0
    THEN LET blockIndex == Genesis(ch)
         IN  IF blockIndex = nullptr
             THEN [err |-> ErrGenesis, idx |-> <<>>, log |-> <<<<"Genesis">>>>]
             ELSE [err |-> NoError, idx |-> <<blockIndex>>, log |-> <<<<"Genesis">>>>]
    ELSE LET r == ResolveLoop(ch, req.baseBlockHashes, 1, <<>>, <<>>)
         IN  IF r.err # NoError THEN r
             ELSE [r EXCEPT !.idx = SortByHeight(ch, r.idx)]

\* GetLastBaseBlockHash stopping at a base block of the same height too (>=)
RECURSIVE LastBaseLoopStrict(_, _, _, _, _)
LastBaseLoopStrict(ch, baseBlockIndexes, blockIndex, i, hash) ==
    IF i > Len(baseBlockIndexes) THEN hash
    ELSE IF ch.nHeight[baseBlockIndexes[i]] >= ch.nHeight[blockIndex] THEN hash
    ELSE LastBaseLoopStrict(ch, baseBlockIndexes, blockIndex, i + 1,
                            GetBlockHash(ch, baseBlockIndexes[i]))

GetLastBaseBlockHashStrict(ch, baseBlockIndexes, blockIndex) ==
    LastBaseLoopStrict(ch, baseBlockIndexes, blockIndex, 1, ZeroHash)

\* lines 213-222: the loop from position i on, hash being the value so far
RECURSIVE LastBaseLoop(_, _, _, _, _)
LastBaseLoop(ch, baseBlockIndexes, blockIndex, i, hash) ==
    IF i > Len(baseBlockIndexes) THEN hash
    ELSE IF ch.nHeight[baseBlockIndexes[i]] > ch.nHeight[blockIndex] THEN hash
    ELSE LastBaseLoop(ch, baseBlockIndexes, blockIndex, i + 1,
                      GetBlockHash(ch, baseBlockIndexes[i]))

GetLastBaseBlockHash(ch, baseBlockIndexes, blockIndex) ==
    LastBaseLoop(ch, baseBlockIndexes, blockIndex, 1, ZeroHash)

\* CycleStartHeight aligning the height below nHeight
CycleStartHeightOffByOne(nHeight) ==
    IF nHeight = 0 THEN 0 ELSE (nHeight - 1) - ((nHeight - 1) % cycleLength)

\* line 147: the height asked of blockIndex->GetAncestor
CycleStartHeight(nHeight) == nHeight - (nHeight % cycleLength)

\* HMinusHeight one cycle short, and HMinusHeight falling back to genesis
HMinusHeightOneShort(hHeight, i) == hHeight - (i - 1) * cycleLength
HMinusHeightClamped(hHeight, i) == Max(hHeight - i * cycleLength, 0)

\* lines 154, 160, 165: the height of H - i*C
HMinusHeight(hHeight, i) == hHeight - i * cycleLength

(***************************************************************************)
(* State.                                                                  *)
(***************************************************************************)
VARIABLES
    chain,                \* mapBlockIndex and ::ChainActive()
    quorumSnapshotCache,  \* CQuorumSnapshotManager::quorumSnapshotCache
    evoDb,                \* the entries of evoDb under DB_QUORUM_SNAPSHOT
    locks,                \* owner and recursion depth of each mutex
    pc,                   \* where each thread is
    call,                 \* the call a thread is in, and whether its caller took cs_main
    opsStarted,           \* calls made so far, by all threads together
    request,              \* BuildQuorumRotationInfo's request
    response,             \* BuildQuorumRotationInfo's response (the caller's object)
    errorRet,             \* BuildQuorumRotationInfo's errorRet (the caller's string)
    ret,                  \* BuildQuorumRotationInfo's return value: "none", "true", "false"
    loc,                  \* BuildQuorumRotationInfo's locals
    snapCall,             \* arguments, locals and result of a Get/StoreSnapshotForBlock call
    calls,                \* the collaborator calls a build has made, in order
    hist                  \* history: the store calls made and returned so far

vars == << chain, quorumSnapshotCache, evoDb, locks, pc, call, opsStarted, request,
           response, errorRet, ret, loc, snapCall, calls, hist >>

buildVars == << request, response, errorRet, ret, loc, calls >>
storeVars == << quorumSnapshotCache, evoDb >>

Locks == {"snapshotCacheCs", "cs_main", "evoDb.cs", "deterministicMNManager.cs"}

\* CanLock never making a thread wait
CanLockAlways(t, l) == TRUE

\* LOCK(cs) on a recursive mutex, and the end of its scope
CanLock(t, l) == locks[l].owner \in {NoThread, t}
Locked(lk, t, l) == [lk EXCEPT ![l] = [owner |-> t, depth |-> @.depth + 1]]
\* Unlocked on a mutex that is not recursive: the inner scope's end frees it
UnlockedFully(lk, t, l) == [lk EXCEPT ![l] = [owner |-> NoThread, depth |-> 0]]
Unlocked(lk, t, l) ==
    [lk EXCEPT ![l] = IF @.depth = 1 THEN [owner |-> NoThread, depth |-> 0]
                      ELSE [owner |-> t, depth |-> @.depth - 1]]
Holds(t, l) == locks[l].owner = t

\* the key a caller names: the pair (llmqType, hash of the block)
KeyOf(llmqType, pindex) == <<llmqType, chain.hash[pindex]>>

\* SnapshotHash leaving llmqType out of the hash
SnapshotHashNoType(llmqType, pindex) == <<llmqTypeInstantSend, GetBlockHash(chain, pindex)>>

\* ::SerializeHash(std::make_pair(llmqType, pindex->GetBlockHash()))
SnapshotHash(llmqType, pindex) == <<llmqType, GetBlockHash(chain, pindex)>>

EmptyMap == [k \in {} |-> EmptySnapshot]
Restrict(f, S) == [k \in S |-> f[k]]

\* Emplace inserting nothing, inserting a default-constructed value, and
\* dropping every other entry
EmplaceNothing(map, key, value) == map
EmplaceDefault(map, key, value) ==
    IF key \in DOMAIN map THEN map
    ELSE [k \in DOMAIN map \cup {key} |-> IF k = key THEN EmptySnapshot ELSE map[k]]
EmplaceEvict(map, key, value) == [k \in {key} |-> value]

\* quorumSnapshotCache.emplace(key, value): no effect when the key is present
Emplace(map, key, value) ==
    IF key \in DOMAIN map THEN map
    ELSE [k \in DOMAIN map \cup {key} |-> IF k = key THEN value ELSE map[k]]

\* evoDb.Write(key, value)
Write(db, key, value) ==
    [k \in DOMAIN db \cup {key} |-> IF k = key THEN value ELSE db[k]]

\* what GetSnapshotForBlock returns for key from a given cache and store
GetResult(cache, db, key) ==
    IF key \in DOMAIN cache THEN <<cache[key]>>
    ELSE IF key \in DOMAIN db THEN <<db[key]>>
    ELSE <<>>

\* The history of the store calls: passed holds <<key, snapshot>> for every
\* StoreSnapshotForBlock call made, returned the keys whose store has returned,
\* afterStore[t] whether the get thread t is in began after a store of its key
\* had returned.  The entries evoDb starts with were stored by earlier calls.
HistoryOf(db) ==
    [ passed |-> {<<k, db[k]>> : k \in DOMAIN db},
      returned |-> DOMAIN db,
      afterStore |-> [t \in Threads |-> FALSE] ]
StorePassed(h, key, snapshot) == [h EXCEPT !.passed = @ \cup {<<key, snapshot>>}]
StoreReturned(h, key) == [h EXCEPT !.returned = @ \cup {key}]
GetStarted(h, t, key) == [h EXCEPT !.afterStore[t] = (key \in h.returned)]

(***************************************************************************)
(* Inputs.                                                                 *)
(***************************************************************************)
\* linear chains (tip height -1: no block at all), and chains of full height
\* with a side branch forking off inside each cycle and at the tip
AllChains ==
    {MkChain(T, 0, 0) : T \in {0 - 1, 0, MaxHeight - 1, MaxHeight}}
    \cup {MkChain(MaxHeight, f, MaxFork) :
            f \in {h \in 0..MaxHeight : h % cycleLength = 1 \/ h = MaxHeight}}

MainBlocks(ch) == {b \in ch.blocks : b > 0}
BoundaryBlocks(ch) == {b \in MainBlocks(ch) : ch.nHeight[b] % cycleLength = 0}

\* the store after the chain was processed: one snapshot per cycle boundary
BoundaryDb(ch) ==
    [k \in {<<llmqTypeInstantSend, ch.hash[b]>> : b \in BoundaryBlocks(ch)} |->
        MkSnapshot(k[2])]
\* ... with at most one of them missing
DbChoices(ch) ==
    {BoundaryDb(ch)}
    \cup {Restrict(BoundaryDb(ch), DOMAIN BoundaryDb(ch) \ {k}) : k \in DOMAIN BoundaryDb(ch)}

SeqsUpTo(S, n) == UNION {[1..m -> S] : m \in 0..n}

\* hashes a request may name as base blocks: genesis, a block inside a cycle,
\* a cycle boundary, a block of the side branch, and a hash of no block
BaseHashChoices(ch) ==
    {ch.hash[b] : b \in {x \in ch.blocks :
                          \/ x < 0 /\ ch.pprev[x] > 0
                          \/ x > 0 /\ ch.nHeight[x] \in {0, cycleLength + 1, 2 * cycleLength}}}
    \cup {ZeroHash}

\* requests whose count matches their list, over every target
MatchingRequests(ch) ==
    {[baseBlockHashesNb |-> Len(l), baseBlockHashes |-> l, blockRequestHash |-> h] :
        l \in SeqsUpTo(BaseHashChoices(ch), MaxBaseLen),
        h \in {ch.hash[b] : b \in ch.blocks} \cup {ZeroHash}}
\* requests of every count 0..5 and every list length 0..5
CountRequests(ch) ==
    [ baseBlockHashesNb : 0..(MaxBaseBlockHashesNb + 1),
      baseBlockHashes   : SeqsUpTo({ZeroHash}, MaxBaseBlockHashesNb + 1),
      blockRequestHash  : {ZeroHash} ]
AllRequests(ch) == MatchingRequests(ch) \cup CountRequests(ch)

\* the concurrent specification: one chain, one request, two store keys
ConcChain == MkChain(MaxHeight, 0, 0)
ConcRequests(ch) ==
    {[baseBlockHashesNb |-> 0, baseBlockHashes |-> <<>>,
      blockRequestHash |-> ch.hash[ch.tip]]}
DirectBlocks(ch) == {MainId(cycleLength)}
StoreSnapshots(pindex) == {MkSnapshot(pindex), MkSnapshot(0 - pindex)}

(***************************************************************************)
(* Initial states.                                                         *)
(***************************************************************************)
InitThreads ==
    /\ locks = [l \in Locks |-> [owner |-> NoThread, depth |-> 0]]
    /\ pc = [t \in Threads |-> "idle"]
    /\ call = [t \in Threads |-> [kind |-> "none", holdsMain |-> FALSE]]
    /\ opsStarted = 0
    /\ request = [t \in Threads |-> NoRequest]
    /\ response = [t \in Threads |-> EmptyResponse]
    /\ errorRet = [t \in Threads |-> NoError]
    /\ ret = [t \in Threads |-> "none"]
    /\ loc = [t \in Threads |-> NoLocals]
    /\ snapCall = [t \in Threads |-> NoSnapCall]
    /\ calls = [t \in Threads |-> <<>>]
    /\ hist = HistoryOf(evoDb)

Init ==
    /\ chain = ConcChain
    /\ evoDb \in {EmptyMap, BoundaryDb(ConcChain)}
    /\ quorumSnapshotCache = EmptyMap
    /\ InitThreads

InitBuild ==
    /\ chain \in AllChains
    /\ evoDb \in DbChoices(chain)
    /\ quorumSnapshotCache \in {EmptyMap, evoDb}
    /\ InitThreads

(***************************************************************************)
(* Callers.  A thread makes one call at a time; the caller of              *)
(* BuildQuorumRotationInfo always takes cs_main first (AssertLockHeld),    *)
(* the caller of Get/StoreSnapshotForBlock may or may not.                 *)
(***************************************************************************)
FirstPc(kind) ==
    CASE kind = "build" -> "b_validate"
      [] kind = "get"   -> "g_lock_cache"
      [] kind = "store" -> "s_lock_cache"

StartCall(t, kind, holdsMain) ==
    /\ pc[t] = "idle"
    /\ call' = [call EXCEPT ![t] = [kind |-> kind, holdsMain |-> holdsMain]]
    /\ pc' = [pc EXCEPT ![t] = IF holdsMain THEN "caller_lock_main" ELSE FirstPc(kind)]
    /\ ret' = [ret EXCEPT ![t] = "none"]
    /\ errorRet' = [errorRet EXCEPT ![t] = NoError]
    /\ response' = [response EXCEPT ![t] = EmptyResponse]
    /\ loc' = [loc EXCEPT ![t] = NoLocals]
    /\ calls' = [calls EXCEPT ![t] = <<>>]
    /\ opsStarted' = opsStarted + 1
    /\ UNCHANGED <<chain, storeVars, locks>>

CallBuild(t, req) ==
    /\ StartCall(t, "build", TRUE)
    /\ request' = [request EXCEPT ![t] = req]
    /\ snapCall' = [snapCall EXCEPT ![t] = NoSnapCall]
    /\ UNCHANGED hist

CallGet(t, llmqType, pindex, holdsMain) ==
    /\ StartCall(t, "get", holdsMain)
    /\ request' = [request EXCEPT ![t] = NoRequest]
    /\ snapCall' = [snapCall EXCEPT ![t] =
            [ op |-> "get", llmqType |-> llmqType, pindex |-> pindex,
              snapshot |-> EmptySnapshot, result |-> <<>>, retpc |-> "ret" ]]
    /\ hist' = GetStarted(hist, t, KeyOf(llmqType, pindex))

CallStore(t, llmqType, pindex, snapshot, holdsMain) ==
    /\ StartCall(t, "store", holdsMain)
    /\ request' = [request EXCEPT ![t] = NoRequest]
    /\ snapCall' = [snapCall EXCEPT ![t] =
            [ op |-> "store", llmqType |-> llmqType, pindex |-> pindex,
              snapshot |-> snapshot, result |-> <<>>, retpc |-> "ret" ]]
    /\ hist' = StorePassed(hist, KeyOf(llmqType, pindex), snapshot)

\* the caller's LOCK(cs_main)
CallerLockMain(t) ==
    /\ pc[t] = "caller_lock_main"
    /\ CanLock(t, "cs_main")
    /\ locks' = Locked(locks, t, "cs_main")
    /\ pc' = [pc EXCEPT ![t] = FirstPc(call[t].kind)]
    /\ UNCHANGED <<chain, hist, storeVars, call, opsStarted, buildVars, snapCall>>

\* the call has returned; the caller's lock scope ends
CallerReturn(t) ==
    /\ pc[t] = "ret"
    /\ locks' = IF call[t].holdsMain THEN Unlocked(locks, t, "cs_main") ELSE locks
    /\ pc' = [pc EXCEPT ![t] = "idle"]
    /\ UNCHANGED <<chain, hist, storeVars, call, opsStarted, buildVars, snapCall>>

(***************************************************************************)
(* BuildQuorumRotationInfo.                                                *)
(***************************************************************************)
\* return false with errorRet set; the scope of LOCK(deterministicMNManager->cs) ends
BuildFail(t, err) ==
    /\ errorRet' = [errorRet EXCEPT ![t] = err]
    /\ ret' = [ret EXCEPT ![t] = "false"]
    /\ locks' = IF Holds(t, "deterministicMNManager.cs")
                THEN Unlocked(locks, t, "deterministicMNManager.cs") ELSE locks
    /\ pc' = [pc EXCEPT ![t] = "ret"]

BuildGoto(t, label) ==
    /\ pc' = [pc EXCEPT ![t] = label]
    /\ UNCHANGED <<errorRet, ret, locks>>

BuildLog(t, entries) == calls' = [calls EXCEPT ![t] = @ \o entries]

\* lines 85-93
BuildValidate(t) ==
    /\ pc[t] = "b_validate"
    /\ LET err == ValidateRequest(request[t])
       IN  IF err # NoError THEN BuildFail(t, err) ELSE BuildGoto(t, "b_lock_mn")
    /\ UNCHANGED <<chain, hist, storeVars, call, opsStarted, request, response, loc, snapCall, calls>>

\* line 95
BuildLockMN(t) ==
    /\ pc[t] = "b_lock_mn"
    /\ CanLock(t, "deterministicMNManager.cs")
    /\ locks' = Locked(locks, t, "deterministicMNManager.cs")
    /\ pc' = [pc EXCEPT ![t] = "b_base"]
    /\ UNCHANGED <<chain, hist, storeVars, call, opsStarted, buildVars, snapCall>>

\* lines 100-125
BuildResolveBase(t) ==
    /\ pc[t] = "b_base"
    /\ LET r == ResolveBaseBlocks(chain, request[t])
       IN  /\ BuildLog(t, r.log)
           /\ IF r.err # NoError
              THEN BuildFail(t, r.err) /\ UNCHANGED loc
              ELSE /\ BuildGoto(t, "b_tip")
                   /\ loc' = [loc EXCEPT ![t].baseBlockIndexes = r.idx]
    /\ UNCHANGED <<chain, hist, storeVars, call, opsStarted, request, response, snapCall>>

\* lines 127-135; BuildSimplifiedMNListDiff succeeds or fails
BuildTip(t) ==
    /\ pc[t] = "b_tip"
    /\ LET tipBlockIndex == Tip(chain)
       IN  IF tipBlockIndex = nullptr
           THEN /\ BuildLog(t, << <<"Tip">> >>)
                /\ BuildFail(t, ErrTip)
                /\ UNCHANGED <<loc, response>>
           ELSE LET from == GetBlockHash(chain, Last(loc[t].baseBlockIndexes))
                    to   == GetBlockHash(chain, tipBlockIndex)
                IN  /\ BuildLog(t, << <<"Tip">>, <<"BuildSimplifiedMNListDiff", from, to>> >>)
                    /\ loc' = [loc EXCEPT ![t].tipBlockIndex = tipBlockIndex]
                    /\ \E ok \in BOOLEAN :
                         IF ok
                         THEN /\ response' = [response EXCEPT ![t].mnListDiffTip = MkDiff(from, to)]
                              /\ BuildGoto(t, "b_target")
                         ELSE /\ BuildFail(t, ErrDiff(from, to))
                              /\ UNCHANGED response
    /\ UNCHANGED <<chain, hist, storeVars, call, opsStarted, request, snapCall>>

\* lines 137-152
BuildTarget(t) ==
    /\ pc[t] = "b_target"
    /\ LET blockIndex == LookupBlockIndex(chain, request[t].blockRequestHash)
           height == CycleStartHeight(chain.nHeight[blockIndex])
           hBlockIndex == GetAncestor(chain, blockIndex, height)
       IN  IF blockIndex = nullptr
           THEN /\ BuildLog(t, << <<"LookupBlockIndex", request[t].blockRequestHash>> >>)
                /\ BuildFail(t, ErrTarget)
                /\ UNCHANGED <<loc, response>>
           ELSE /\ BuildLog(t, << <<"LookupBlockIndex", request[t].blockRequestHash>>,
                                  <<"GetAncestor", blockIndex, height>> >>)
                /\ IF hBlockIndex = nullptr
                   THEN /\ BuildFail(t, ErrBlockH)
                        /\ loc' = [loc EXCEPT ![t].blockIndex = blockIndex]
                        /\ UNCHANGED response
                   ELSE /\ BuildGoto(t, "b_ancestors")
                        /\ loc' = [loc EXCEPT ![t].blockIndex = blockIndex,
                                              ![t].hBlockIndex = hBlockIndex]
                        /\ response' = [response EXCEPT ![t].creationHeight =
                                            chain.nHeight[hBlockIndex]]
    /\ UNCHANGED <<chain, hist, storeVars, call, opsStarted, request, snapCall>>

\* lines 154-169
BuildAncestors(t) ==
    /\ pc[t] = "b_ancestors"
    /\ LET hHeight == chain.nHeight[loc[t].hBlockIndex]
           pC  == GetAncestor(chain, loc[t].tipBlockIndex, HMinusHeight(hHeight, 1))
           p2C == GetAncestor(chain, pC, HMinusHeight(hHeight, 2))
           p3C == GetAncestor(chain, pC, HMinusHeight(hHeight, 3))
           c1  == <<"GetAncestor", loc[t].tipBlockIndex, HMinusHeight(hHeight, 1)>>
           c2  == <<"GetAncestor", pC, HMinusHeight(hHeight, 2)>>
           c3  == <<"GetAncestor", pC, HMinusHeight(hHeight, 3)>>
       IN  IF pC = nullptr
           THEN /\ BuildLog(t, <<c1>>)
                /\ BuildFail(t, ErrBlockHMinusC)
                /\ UNCHANGED loc
           ELSE IF p2C = nullptr
           THEN /\ BuildLog(t, <<c1, c2>>)
                /\ BuildFail(t, ErrBlockHMinus2C)
                /\ loc' = [loc EXCEPT ![t].pBlockHMinusCIndex = pC]
           ELSE IF p3C = nullptr
           THEN /\ BuildLog(t, <<c1, c2, c3>>)
                /\ BuildFail(t, ErrBlockHMinus3C)
                /\ loc' = [loc EXCEPT ![t].pBlockHMinusCIndex = pC,
                                      ![t].pBlockHMinus2CIndex = p2C]
           ELSE /\ BuildLog(t, <<c1, c2, c3>>)
                /\ BuildGoto(t, "b_diff1")
                /\ loc' = [loc EXCEPT ![t].pBlockHMinusCIndex = pC,
                                      ![t].pBlockHMinus2CIndex = p2C,
                                      ![t].pBlockHMinus3CIndex = p3C]
    /\ UNCHANGED <<chain, hist, storeVars, call, opsStarted, request, response, snapCall>>

\* CycleBlock with H-C and H-2C exchanged
CycleBlockSwapped(l, i) ==
    CASE i = 1 -> l.pBlockHMinus2CIndex
      [] i = 2 -> l.pBlockHMinusCIndex
      [] i = 3 -> l.pBlockHMinus3CIndex

\* the block, the response fields and the message of H - i*C
CycleBlock(l, i) ==
    CASE i = 1 -> l.pBlockHMinusCIndex
      [] i = 2 -> l.pBlockHMinus2CIndex
      [] i = 3 -> l.pBlockHMinus3CIndex
WithDiff(r, i, d) ==
    CASE i = 1 -> [r EXCEPT !.mnListDiffAtHMinusC = d]
      [] i = 2 -> [r EXCEPT !.mnListDiffAtHMinus2C = d]
      [] i = 3 -> [r EXCEPT !.mnListDiffAtHMinus3C = d]
WithSnapshot(r, i, s) ==
    CASE i = 1 -> [r EXCEPT !.quorumSnapshotAtHMinusC = s]
      [] i = 2 -> [r EXCEPT !.quorumSnapshotAtHMinus2C = s]
      [] i = 3 -> [r EXCEPT !.quorumSnapshotAtHMinus3C = s]
ErrSnapshot(i) ==
    CASE i = 1 -> ErrSnapshotHMinusC
      [] i = 2 -> ErrSnapshotHMinus2C
      [] i = 3 -> ErrSnapshotHMinus3C
DiffPc(i) == CASE i = 1 -> "b_diff1" [] i = 2 -> "b_diff2" [] i = 3 -> "b_diff3"
GetPc(i)  == CASE i = 1 -> "b_get1" [] i = 2 -> "b_get2" [] i = 3 -> "b_get3"
GotPc(i)  == CASE i = 1 -> "b_got1" [] i = 2 -> "b_got2" [] i = 3 -> "b_got3"

\* lines 171, 184, 197
BuildDiff(t, i) ==
    /\ pc[t] = DiffPc(i)
    /\ LET pindex == CycleBlock(loc[t], i)
           from == GetLastBaseBlockHash(chain, loc[t].baseBlockIndexes, pindex)
           to   == GetBlockHash(chain, pindex)
       IN  /\ BuildLog(t, << <<"BuildSimplifiedMNListDiff", from, to>> >>)
           /\ \E ok \in BOOLEAN :
                IF ok
                THEN /\ response' = [response EXCEPT ![t] = WithDiff(@, i, MkDiff(from, to))]
                     /\ BuildGoto(t, GetPc(i))
                ELSE /\ BuildFail(t, ErrDiff(from, to))
                     /\ UNCHANGED response
    /\ UNCHANGED <<chain, hist, storeVars, call, opsStarted, request, loc, snapCall>>

\* lines 175, 188, 201: the call of GetSnapshotForBlock
BuildGetSnapshot(t, i) ==
    /\ pc[t] = GetPc(i)
    /\ BuildLog(t, << <<"GetSnapshotForBlock", llmqTypeInstantSend, CycleBlock(loc[t], i)>> >>)
    /\ snapCall' = [snapCall EXCEPT ![t] =
            [ op |-> "get", llmqType |-> llmqTypeInstantSend,
              pindex |-> CycleBlock(loc[t], i),
              snapshot |-> EmptySnapshot, result |-> <<>>, retpc |-> GotPc(i) ]]
    /\ pc' = [pc EXCEPT ![t] = "g_lock_cache"]
    /\ hist' = GetStarted(hist, t, KeyOf(llmqTypeInstantSend, CycleBlock(loc[t], i)))
    /\ UNCHANGED <<chain, storeVars, locks, call, opsStarted, request, response, errorRet,
                   ret, loc>>

\* lines 176-182, 189-195, 202-210
BuildGotSnapshot(t, i) ==
    /\ pc[t] = GotPc(i)
    /\ IF snapCall[t].result = <<>>
       THEN /\ BuildFail(t, ErrSnapshot(i))
            /\ UNCHANGED response
       ELSE /\ response' = [response EXCEPT ![t] = WithSnapshot(@, i, snapCall[t].result[1])]
            /\ IF i < 3
               THEN BuildGoto(t, DiffPc(i + 1))
               ELSE /\ ret' = [ret EXCEPT ![t] = "true"]
                    /\ locks' = Unlocked(locks, t, "deterministicMNManager.cs")
                    /\ pc' = [pc EXCEPT ![t] = "ret"]
                    /\ UNCHANGED errorRet
    /\ UNCHANGED <<chain, hist, storeVars, call, opsStarted, request, loc, snapCall, calls>>

(***************************************************************************)
(* CQuorumSnapshotManager::GetSnapshotForBlock.                            *)
(***************************************************************************)
LockStep(t, from, l, to) ==
    /\ pc[t] = from
    /\ CanLock(t, l)
    /\ locks' = Locked(locks, t, l)
    /\ pc' = [pc EXCEPT ![t] = to]
    /\ UNCHANGED <<chain, hist, storeVars, call, opsStarted, buildVars, snapCall>>

\* line 235
GetLockCache(t) == LockStep(t, "g_lock_cache", "snapshotCacheCs", "g_lookup")

\* lines 237-241
GetLookup(t) ==
    /\ pc[t] = "g_lookup"
    /\ LET snapshotHash == SnapshotHash(snapCall[t].llmqType, snapCall[t].pindex)
       IN  IF snapshotHash \in DOMAIN quorumSnapshotCache
           THEN /\ snapCall' = [snapCall EXCEPT
                        ![t].snapshot = quorumSnapshotCache[snapshotHash],
                        ![t].result = <<quorumSnapshotCache[snapshotHash]>>]
                /\ locks' = Unlocked(locks, t, "snapshotCacheCs")
                /\ pc' = [pc EXCEPT ![t] = snapCall[t].retpc]
           ELSE /\ pc' = [pc EXCEPT ![t] = "g_lock_main"]
                /\ UNCHANGED <<snapCall, locks>>
    /\ UNCHANGED <<chain, hist, storeVars, call, opsStarted, buildVars>>

\* line 242
GetLockMain(t) == LockStep(t, "g_lock_main", "cs_main", "g_lock_db")

\* line 243
GetLockDb(t) == LockStep(t, "g_lock_db", "evoDb.cs", "g_read")

\* the three scopes of a call end, innermost first
UnlockedAll(lk, t) ==
    Unlocked(Unlocked(Unlocked(lk, t, "evoDb.cs"), t, "cs_main"), t, "snapshotCacheCs")

\* lines 244-249
GetRead(t) ==
    /\ pc[t] = "g_read"
    /\ LET snapshotHash == SnapshotHash(snapCall[t].llmqType, snapCall[t].pindex)
       IN  IF snapshotHash \in DOMAIN evoDb
           THEN /\ quorumSnapshotCache' =
                        Emplace(quorumSnapshotCache, snapshotHash, evoDb[snapshotHash])
                /\ snapCall' = [snapCall EXCEPT
                        ![t].snapshot = evoDb[snapshotHash],
                        ![t].result = <<evoDb[snapshotHash]>>]
           ELSE /\ snapCall' = [snapCall EXCEPT ![t].result = <<>>]
                /\ UNCHANGED quorumSnapshotCache
    /\ locks' = UnlockedAll(locks, t)
    /\ pc' = [pc EXCEPT ![t] = snapCall[t].retpc]
    /\ UNCHANGED <<chain, hist, evoDb, call, opsStarted, buildVars>>

(***************************************************************************)
(* CQuorumSnapshotManager::StoreSnapshotForBlock.                          *)
(***************************************************************************)
\* lines 256-258
StoreLockCache(t) == LockStep(t, "s_lock_cache", "snapshotCacheCs", "s_lock_main")
StoreLockMain(t) == LockStep(t, "s_lock_main", "cs_main", "s_lock_db")
StoreLockDb(t) == LockStep(t, "s_lock_db", "evoDb.cs", "s_write")

\* line 259
StoreWrite(t) ==
    /\ pc[t] = "s_write"
    /\ evoDb' = Write(evoDb, SnapshotHash(snapCall[t].llmqType, snapCall[t].pindex),
                      snapCall[t].snapshot)
    /\ pc' = [pc EXCEPT ![t] = "s_emplace"]
    /\ UNCHANGED <<chain, hist, quorumSnapshotCache, locks, call, opsStarted, buildVars, snapCall>>

\* lines 260-261
StoreEmplace(t) ==
    /\ pc[t] = "s_emplace"
    /\ quorumSnapshotCache' =
            Emplace(quorumSnapshotCache,
                    SnapshotHash(snapCall[t].llmqType, snapCall[t].pindex),
                    snapCall[t].snapshot)
    /\ locks' = UnlockedAll(locks, t)
    /\ pc' = [pc EXCEPT ![t] = snapCall[t].retpc]
    /\ hist' = StoreReturned(hist, KeyOf(snapCall[t].llmqType, snapCall[t].pindex))
    /\ UNCHANGED <<chain, evoDb, call, opsStarted, buildVars, snapCall>>

(***************************************************************************)
(* Specifications.                                                         *)
(***************************************************************************)
BuildStep(t) ==
    \/ BuildValidate(t)
    \/ BuildLockMN(t)
    \/ BuildResolveBase(t)
    \/ BuildTip(t)
    \/ BuildTarget(t)
    \/ BuildAncestors(t)
    \/ \E i \in 1..3 : BuildDiff(t, i)
    \/ \E i \in 1..3 : BuildGetSnapshot(t, i)
    \/ \E i \in 1..3 : BuildGotSnapshot(t, i)

GetStep(t) ==
    \/ GetLockCache(t)
    \/ GetLookup(t)
    \/ GetLockMain(t)
    \/ GetLockDb(t)
    \/ GetRead(t)

StoreStep(t) ==
    \/ StoreLockCache(t)
    \/ StoreLockMain(t)
    \/ StoreLockDb(t)
    \/ StoreWrite(t)
    \/ StoreEmplace(t)

\* two threads making up to MaxOps calls of build, get and store; callerLocks
\* says whether the callers of get and store may, must (or must not) hold cs_main
NextWith(callerLocks) ==
    \E t \in Threads :
        \/ /\ pc[t] = "idle"
           /\ opsStarted < MaxOps
           /\ \/ \E req \in ConcRequests(chain) : CallBuild(t, req)
              \/ \E ty \in LLMQTypes, b \in DirectBlocks(chain), m \in callerLocks :
                    CallGet(t, ty, b, m)
              \/ \E ty \in LLMQTypes, b \in DirectBlocks(chain), m \in callerLocks :
                    \E sn \in StoreSnapshots(b) : CallStore(t, ty, b, sn, m)
        \/ CallerLockMain(t)
        \/ CallerReturn(t)
        \/ BuildStep(t)
        \/ GetStep(t)
        \/ StoreStep(t)

Next == NextWith(BOOLEAN)

Spec == Init /\ [][Next]_vars

\* the same, with no caller of get or store holding cs_main
NextUnlocked == NextWith({FALSE})

SpecUnlocked == Init /\ [][NextUnlocked]_vars

\* one thread, one call of BuildQuorumRotationInfo, over every chain and request
NextBuild ==
    \/ /\ pc["t1"] = "idle"
       /\ opsStarted = 0
       /\ \E req \in AllRequests(chain) : CallBuild("t1", req)
    \/ CallerLockMain("t1")
    \/ CallerReturn("t1")
    \/ BuildStep("t1")
    \/ GetStep("t1")

SpecBuild == InitBuild /\ [][NextBuild]_vars

(***************************************************************************)
(* A reorganisation: the best chain changes between the active chain and   *)
(* the side branch.  It is done under cs_main, here in one step, so it     *)
(* waits while any thread holds cs_main.                                   *)
(***************************************************************************)
\* a chain whose side branch ends above the active tip
ReorgChain == MkChain(MaxHeight, MaxHeight - 2, MaxFork)
ReorgTips == {MainId(MaxHeight), ForkId(MaxHeight - 2 + MaxFork)}
ReorgRequests(ch) ==
    {[baseBlockHashesNb |-> 0, baseBlockHashes |-> <<>>, blockRequestHash |-> ch.hash[b]] :
        b \in {MainId(MaxHeight - 1), MainId(MaxHeight - 3)}}

InitReorg ==
    /\ chain = ReorgChain
    /\ evoDb = BoundaryDb(ReorgChain)
    /\ quorumSnapshotCache = EmptyMap
    /\ InitThreads

ActivateBestChain ==
    /\ locks["cs_main"].owner = NoThread
    /\ \E tip \in ReorgTips \ {chain.tip} : chain' = [chain EXCEPT !.tip = tip]
    /\ UNCHANGED <<hist, storeVars, locks, pc, call, opsStarted, buildVars, snapCall>>

\* one thread making up to MaxOps calls of BuildQuorumRotationInfo while the
\* best chain changes
NextReorg ==
    \/ /\ pc["t1"] = "idle"
       /\ opsStarted < MaxOps
       /\ \E req \in ReorgRequests(chain) : CallBuild("t1", req)
    \/ CallerLockMain("t1")
    \/ CallerReturn("t1")
    \/ BuildStep("t1")
    \/ GetStep("t1")
    \/ ActivateBestChain

SpecReorg == InitReorg /\ [][NextReorg]_vars

(***************************************************************************)
(* Properties.                                                             *)
(***************************************************************************)
\* the mutex a thread is about to take, "none" when it is not at a LOCK
WantsLock(t) ==
    CASE pc[t] \in {"g_lock_cache", "s_lock_cache"} -> "snapshotCacheCs"
      [] pc[t] \in {"caller_lock_main", "g_lock_main", "s_lock_main"} -> "cs_main"
      [] pc[t] \in {"g_lock_db", "s_lock_db"} -> "evoDb.cs"
      [] pc[t] = "b_lock_mn" -> "deterministicMNManager.cs"
      [] OTHER -> "none"
Blocked(t) == WantsLock(t) # "none" /\ ~CanLock(t, WantsLock(t))
InCall(t) == pc[t] # "idle"

\* the blocks reached from b by following pprev, b included
RECURSIVE AncestorsOf(_, _)
AncestorsOf(ch, b) ==
    IF b = nullptr THEN {} ELSE {b} \cup AncestorsOf(ch, ch.pprev[b])

\* the block a hash names (nullptr when it names none)
BlockOfHash(ch, hash) ==
    IF \E b \in ch.blocks : ch.hash[b] = hash
    THEN CHOOSE b \in ch.blocks : ch.hash[b] = hash
    ELSE nullptr
HeightOfHash(ch, hash) ==
    IF BlockOfHash(ch, hash) = nullptr THEN 0 - 1 ELSE ch.nHeight[BlockOfHash(ch, hash)]

\* C1: when StoreSnapshotForBlock(llmqType, pindex, snapshot) returns, the entry
\* of the key in evoDb and in quorumSnapshotCache both equal snapshot, and a
\* GetSnapshotForBlock of the key returns snapshot.
C1_StoreRoundTrip ==
    [][\A t \in Threads :
         (pc[t] = "s_emplace" /\ pc'[t] # "s_emplace") =>
            LET key == SnapshotHash(snapCall[t].llmqType, snapCall[t].pindex)
                snapshot == snapCall[t].snapshot
            IN  /\ key \in DOMAIN evoDb' /\ evoDb'[key] = snapshot
                /\ key \in DOMAIN quorumSnapshotCache'
                /\ quorumSnapshotCache'[key] = snapshot
                /\ GetResult(quorumSnapshotCache', evoDb', key) = <<snapshot>>]_vars

\* C2: no state has a thread inside a call while every thread inside a call
\* is waiting for a mutex another thread holds.
C2_NoDeadlock ==
    ~ \E t \in Threads : InCall(t) /\ \A u \in Threads : InCall(u) => Blocked(u)

\* C3: a thread that is about to take snapshotCacheCs holds neither cs_main nor
\* evoDb.cs, and a thread that is about to take cs_main does not hold evoDb.cs.
C3_LockOrder ==
    \A t \in Threads :
        /\ WantsLock(t) = "snapshotCacheCs" =>
                ~Holds(t, "cs_main") /\ ~Holds(t, "evoDb.cs")
        /\ WantsLock(t) = "cs_main" => ~Holds(t, "evoDb.cs")

\* C4: when BuildQuorumRotationInfo has returned false, the caller's response
\* is as it was before the call.
C4_NoPartialResult ==
    \A t \in Threads : ret[t] = "false" => response[t] = EmptyResponse

\* C5: a request with baseBlockHashesNb > 4 fails with the invalid-count
\* message, one with baseBlockHashesNb <= 4 and different from the list length
\* fails with the mismatch message, and in both cases no chain lookup, no diff
\* and no snapshot call is ever made for it.
C5_Validation ==
    \A t \in Threads :
        LET nb == request[t].baseBlockHashesNb
            size == Len(request[t].baseBlockHashes)
            failsWith(msg) ==
                /\ calls[t] = <<>>
                /\ ~Holds(t, "deterministicMNManager.cs")
                /\ pc[t] \in {"caller_lock_main", "b_validate", "ret", "idle"}
                /\ ret[t] # "true"
                /\ ret[t] = "false" => errorRet[t] = <<msg>>
        IN  call[t].kind = "build" =>
              /\ nb > 4 => failsWith("invalid requested baseBlockHashesNb")
              /\ (nb <= 4 /\ nb # size) =>
                    failsWith("missmatch requested baseBlockHashesNb and size(baseBlockHashes)")

C5_Witness ==
    \E t \in Threads :
        /\ ret[t] = "false"
        /\ request[t].baseBlockHashesNb = 5
        /\ Len(request[t].baseBlockHashes) = 3
        /\ errorRet[t] = <<"invalid requested baseBlockHashesNb">>

\* C6: when BuildQuorumRotationInfo has returned true, creationHeight is the
\* target's height minus that height modulo cycleLength, a multiple of
\* cycleLength within one cycle below the target, and H is the target's
\* ancestor at that height.
C6_CreationHeight ==
    \A t \in Threads :
        ret[t] = "true" =>
            LET target == BlockOfHash(chain, request[t].blockRequestHash)
                height == chain.nHeight[target]
                creationHeight == response[t].creationHeight
            IN  /\ target # nullptr
                /\ creationHeight = height - (height % cycleLength)
                /\ creationHeight % cycleLength = 0
                /\ height - cycleLength < creationHeight
                /\ creationHeight <= height
                /\ loc[t].hBlockIndex \in AncestorsOf(chain, target)
                /\ chain.nHeight[loc[t].hBlockIndex] = creationHeight

C6_Witness ==
    \E t \in Threads :
        /\ ret[t] = "true"
        /\ chain.nHeight[loc[t].blockIndex] % cycleLength # 0
        /\ response[t].creationHeight = chain.nHeight[loc[t].blockIndex] - 1

\* C7: when BuildQuorumRotationInfo has returned true, the blocks used for
\* H-C, H-2C and H-3C have heights creationHeight - cycleLength,
\* creationHeight - 2*cycleLength and creationHeight - 3*cycleLength, each is an
\* ancestor of the tip, and the last two are ancestors of the first.
C7_CycleBlocks ==
    \A t \in Threads :
        ret[t] = "true" =>
            /\ \A i \in 1..3 :
                 /\ CycleBlock(loc[t], i) \in AncestorsOf(chain, chain.tip)
                 /\ chain.nHeight[CycleBlock(loc[t], i)] =
                        response[t].creationHeight - i * cycleLength
            /\ loc[t].pBlockHMinus2CIndex \in AncestorsOf(chain, loc[t].pBlockHMinusCIndex)
            /\ loc[t].pBlockHMinus3CIndex \in AncestorsOf(chain, loc[t].pBlockHMinusCIndex)

C7_Witness ==
    \E t \in Threads :
        /\ ret[t] = "true"
        /\ loc[t].blockIndex < 0
        /\ chain.nHeight[loc[t].pBlockHMinus3CIndex] = response[t].creationHeight - 3 * cycleLength

\* the base blocks a request resolves to, and the hash build must pass as the
\* start of the diff to pindex: the highest base block not above pindex
BaseBlocksOf(ch, req) ==
    IF req.baseBlockHashesNb = 0 THEN {MainId(0)}
    ELSE {BlockOfHash(ch, req.baseBlockHashes[j]) : j \in 1..Len(req.baseBlockHashes)}
ExpectedAnchor(ch, req, pindex) ==
    LET below == {b \in BaseBlocksOf(ch, req) : ch.nHeight[b] <= ch.nHeight[pindex]}
    IN  IF below = {} THEN ZeroHash
        ELSE ch.hash[CHOOSE b \in below : \A o \in below : ch.nHeight[o] <= ch.nHeight[b]]
DiffField(r, i) ==
    CASE i = 1 -> r.mnListDiffAtHMinusC
      [] i = 2 -> r.mnListDiffAtHMinus2C
      [] i = 3 -> r.mnListDiffAtHMinus3C

\* C8: every diff build has built for H-C, H-2C or H-3C starts at the hash of
\* the highest base block whose height is at most the block's height, or at
\* the zero hash when there is none; the anchor of a lower block is never
\* higher than the anchor of a higher block; with no base hashes in the
\* request every anchor is genesis.
C8_Anchor ==
    \A t \in Threads : \A i \in 1..3 :
        DiffField(response[t], i) # NoDiff =>
            LET anchor == DiffField(response[t], i).baseBlockHash
            IN  /\ anchor = ExpectedAnchor(chain, request[t], CycleBlock(loc[t], i))
                /\ DiffField(response[t], i).blockHash = chain.hash[CycleBlock(loc[t], i)]
                /\ \A j \in 1..3 :
                     (j < i /\ DiffField(response[t], j) # NoDiff) =>
                        HeightOfHash(chain, anchor) <=
                            HeightOfHash(chain, DiffField(response[t], j).baseBlockHash)
                /\ request[t].baseBlockHashesNb = 0 => anchor = chain.hash[MainId(0)]

C8_Witness ==
    \E t \in Threads :
        /\ ret[t] = "true"
        /\ Len(request[t].baseBlockHashes) = 2
        /\ HeightOfHash(chain, request[t].baseBlockHashes[1]) >
                HeightOfHash(chain, request[t].baseBlockHashes[2])
        /\ response[t].mnListDiffAtHMinusC.baseBlockHash = request[t].baseBlockHashes[1]
        /\ response[t].mnListDiffAtHMinus2C.baseBlockHash = request[t].baseBlockHashes[2]
        /\ response[t].mnListDiffAtHMinus3C.baseBlockHash = request[t].baseBlockHashes[2]

\* build returned false right after GetSnapshotForBlock for H - i*C came back empty
SnapshotFailedAt(t, i) ==
    /\ ret[t] = "false"
    /\ calls[t] # <<>>
    /\ Last(calls[t]) = <<"GetSnapshotForBlock", llmqTypeInstantSend, CycleBlock(loc[t], i)>>

\* C9: the message of a missing H-2C snapshot differs from the message of a
\* missing H-C snapshot, and the message of a missing H-3C snapshot differs
\* from both.
C9_SnapshotErrorTagged ==
    \A t \in Threads :
        /\ SnapshotFailedAt(t, 1) => errorRet[t] = <<"Can not find quorum snapshot at H-C">>
        /\ SnapshotFailedAt(t, 2) => errorRet[t] # <<"Can not find quorum snapshot at H-C">>
        /\ SnapshotFailedAt(t, 3) => errorRet[t] # <<"Can not find quorum snapshot at H-C">>

\* C10: once the target block is found, build fails with the H-C message when
\* creationHeight - cycleLength is negative or above the tip, else with the
\* H-2C message when creationHeight - 2*cycleLength is negative, else with the
\* H-3C message when creationHeight - 3*cycleLength is negative, and otherwise
\* resolves H, H-C, H-2C and H-3C at exactly those heights.
C10_AncestorBoundary ==
    \A t \in Threads :
        (ret[t] # "none" /\ loc[t].blockIndex # nullptr) =>
            LET height == chain.nHeight[loc[t].blockIndex]
                creationHeight == height - (height % cycleLength)
                tipHeight == chain.nHeight[chain.tip]
                failsWith(msg) == ret[t] = "false" /\ errorRet[t] = <<msg>>
            IN  IF creationHeight - cycleLength < 0 \/ creationHeight - cycleLength > tipHeight
                THEN failsWith("Can not find block H-C")
                ELSE IF creationHeight - 2 * cycleLength < 0
                THEN failsWith("Can not find block H-2C")
                ELSE IF creationHeight - 3 * cycleLength < 0
                THEN failsWith("Can not find block H-3C")
                ELSE /\ chain.nHeight[loc[t].hBlockIndex] = creationHeight
                     /\ \A i \in 1..3 :
                          /\ CycleBlock(loc[t], i) # nullptr
                          /\ chain.nHeight[CycleBlock(loc[t], i)] =
                                creationHeight - i * cycleLength
                     /\ errorRet[t] \notin
                          { <<"Can not find block H">>, <<"Can not find block H-C">>,
                            <<"Can not find block H-2C">>, <<"Can not find block H-3C">> }

C10_Witness ==
    \E t \in Threads :
        /\ ret[t] = "false"
        /\ errorRet[t] = <<"Can not find block H-C">>
        /\ response[t].creationHeight - cycleLength > chain.nHeight[chain.tip]

\* the key of the Get/StoreSnapshotForBlock call thread t is in
CallKey(t) == SnapshotHash(snapCall[t].llmqType, snapCall[t].pindex)
\* thread t takes a step from the position from
Leaves(t, from) == pc[t] = from /\ pc'[t] # from
\* thread t is in a get that has returned to its caller
GetReturned(t) == snapCall[t].op = "get" /\ pc[t] = snapCall[t].retpc

\* C11: a GetSnapshotForBlock that returns a value and a StoreSnapshotForBlock
\* that returns leave the key in quorumSnapshotCache (a get with the value it
\* returned); the entry of a key stays as it is in every step but the return
\* of a store of that key; and a get that finds its key in the cache returns
\* the entry from the lookup, without going on to cs_main, evoDb.cs or
\* evoDb.Read and without touching evoDb.
C11_CachedReads ==
    [][/\ \A t \in Threads :
            /\ (Leaves(t, "g_lookup") /\ CallKey(t) \in DOMAIN quorumSnapshotCache) =>
                  /\ pc'[t] = snapCall[t].retpc
                  /\ snapCall'[t].result = <<quorumSnapshotCache[CallKey(t)]>>
                  /\ locks'["cs_main"] = locks["cs_main"]
                  /\ locks'["evoDb.cs"] = locks["evoDb.cs"]
                  /\ evoDb' = evoDb
            /\ (pc[t] \in {"g_lock_main", "g_lock_db", "g_read"}) =>
                  CallKey(t) \notin DOMAIN quorumSnapshotCache
            /\ ((Leaves(t, "g_lookup") \/ Leaves(t, "g_read")) /\ pc'[t] = snapCall[t].retpc
                    /\ snapCall'[t].result # <<>>) =>
                  /\ CallKey(t) \in DOMAIN quorumSnapshotCache'
                  /\ snapCall'[t].result = <<quorumSnapshotCache'[CallKey(t)]>>
            /\ Leaves(t, "s_emplace") => CallKey(t) \in DOMAIN quorumSnapshotCache'
       /\ \A k \in DOMAIN quorumSnapshotCache :
            /\ k \in DOMAIN quorumSnapshotCache'
            /\ \/ quorumSnapshotCache'[k] = quorumSnapshotCache[k]
               \/ \E t \in Threads : Leaves(t, "s_emplace") /\ CallKey(t) = k]_vars

\* two gets of one key have returned the same value, the second from the cache
C11_Witness ==
    /\ \A t \in Threads :
         /\ call[t].kind = "get"
         /\ pc[t] = "ret"
         /\ CallKey(t) \in DOMAIN quorumSnapshotCache
         /\ snapCall[t].result = <<quorumSnapshotCache[CallKey(t)]>>
    /\ CallKey("t1") = CallKey("t2")
    /\ opsStarted = 2

\* C12: a get that has returned gave either nothing or a snapshot that a
\* StoreSnapshotForBlock call was passed, whole, for the same (llmqType,
\* block); when it began after a store of its key had returned it did not
\* give nothing.
C12_Linearizable ==
    \A t \in Threads :
        GetReturned(t) =>
            LET key == KeyOf(snapCall[t].llmqType, snapCall[t].pindex)
                result == snapCall[t].result
            IN  /\ result = <<>> => ~hist.afterStore[t]
                /\ result # <<>> => <<key, result[1]>> \in hist.passed

\* stores of two keys were made and a get that began after the store of its
\* key has returned that store's snapshot
C12_Witness ==
    \E t \in Threads :
        /\ GetReturned(t)
        /\ call[t].kind = "get"
        /\ hist.afterStore[t]
        /\ snapCall[t].result # <<>>
        /\ hist.passed = { <<KeyOf(snapCall[t].llmqType, snapCall[t].pindex),
                             snapCall[t].result[1]>>,
                           <<KeyOf(llmqTypeInstantSend + 1, snapCall[t].pindex),
                             MkSnapshot(snapCall[t].pindex)>> }
        /\ snapCall[t].llmqType = llmqTypeInstantSend
        /\ snapCall[t].result[1] = MkSnapshot(0 - snapCall[t].pindex)

\* thread t is between the LOCK(snapshotCacheCs) of a get or store and its return
InBody(t) ==
    pc[t] \in {"g_lookup", "g_lock_main", "g_lock_db", "g_read",
               "s_lock_main", "s_lock_db", "s_write", "s_emplace"}

\* C13: at most one thread is inside the body of GetSnapshotForBlock or
\* StoreSnapshotForBlock, that thread holds snapshotCacheCs, and at
\* evoDb.Read and evoDb.Write it holds cs_main and evoDb.cs as well.
C13_MutualExclusion ==
    /\ \A t \in Threads : InBody(t) => Holds(t, "snapshotCacheCs")
    /\ \A t, u \in Threads : (InBody(t) /\ InBody(u)) => t = u
    /\ \A t \in Threads :
         pc[t] \in {"g_read", "s_write", "s_emplace"} =>
            \A l \in {"snapshotCacheCs", "cs_main", "evoDb.cs"} : Holds(t, l)

\* one thread is at evoDb.Write while the other waits at LOCK(snapshotCacheCs)
C13_Witness ==
    \E t, u \in Threads :
        /\ pc[t] = "s_write"
        /\ pc[u] = "g_lock_cache"
        /\ ~CanLock(u, "snapshotCacheCs")

\* C14: a get whose key is in neither quorumSnapshotCache nor evoDb goes from
\* the lookup to the read and returns nothing, with errorRet, the cache and
\* evoDb as they were; a store of a key that has no cache entry leaves
\* cache and evoDb such that a get of the key returns the stored snapshot.
C14_MissReturnsEmpty ==
    [][\A t \in Threads :
         /\ (Leaves(t, "g_lookup") /\ CallKey(t) \notin DOMAIN quorumSnapshotCache) =>
               /\ pc'[t] = "g_lock_main"
               /\ quorumSnapshotCache' = quorumSnapshotCache
               /\ evoDb' = evoDb
         /\ (Leaves(t, "g_read") /\ CallKey(t) \notin DOMAIN evoDb) =>
               /\ CallKey(t) \notin DOMAIN quorumSnapshotCache
               /\ pc'[t] = snapCall[t].retpc
               /\ snapCall'[t].result = <<>>
               /\ errorRet' = errorRet
               /\ quorumSnapshotCache' = quorumSnapshotCache
               /\ evoDb' = evoDb
         /\ (Leaves(t, "s_emplace") /\ CallKey(t) \notin DOMAIN quorumSnapshotCache) =>
               GetResult(quorumSnapshotCache', evoDb', CallKey(t)) = <<snapCall[t].snapshot>>]_vars

\* a get has returned nothing, and after a store of the key a get of the same
\* key has returned the stored snapshot
C14_Witness ==
    /\ \A t \in Threads : call[t].kind = "get" /\ pc[t] = "ret"
    /\ CallKey("t1") = CallKey("t2")
    /\ snapCall["t1"].result = <<>>
    /\ snapCall["t2"].result # <<>>
    /\ evoDb[CallKey("t2")] = snapCall["t2"].result[1]
    /\ opsStarted = 3

\* the base blocks of a request, in request order, and the first position
\* whose hash names no block or a block that is not on the active chain
Offending(ch, req) ==
    {j \in 1..Len(req.baseBlockHashes) :
        BlockOfHash(ch, req.baseBlockHashes[j]) \notin AncestorsOf(ch, ch.tip)}
FirstOffending(ch, req) ==
    CHOOSE j \in Offending(ch, req) : \A o \in Offending(ch, req) : j <= o
HighestBase(ch, req) ==
    CHOOSE b \in BaseBlocksOf(ch, req) :
        \A o \in BaseBlocksOf(ch, req) : ch.nHeight[o] <= ch.nHeight[b]
\* thread t is in a build whose request passed the two count checks and whose
\* base blocks have been resolved or refused
BaseResolved(t) ==
    /\ call[t].kind = "build"
    /\ pc[t] \notin {"caller_lock_main", "b_validate", "b_lock_mn", "b_base"}
    /\ request[t].baseBlockHashesNb <= 4
    /\ request[t].baseBlockHashesNb = Len(request[t].baseBlockHashes)
BaseErrors(req) ==
    {<<"genesis block not found">>}
    \cup {<<"block %s not found", req.baseBlockHashes[j]>> : j \in 1..Len(req.baseBlockHashes)}
    \cup {<<"block %s is not in the active chain", req.baseBlockHashes[j]>> :
            j \in 1..Len(req.baseBlockHashes)}

\* C15: with baseBlockHashesNb = 0 build fails with the genesis message when
\* the chain has no block and otherwise uses genesis alone; with base hashes
\* it fails at the first hash, in request order, that names no block (not
\* found) or a block off the active chain (not in the active chain), and at
\* no other hash; every tip diff built goes from the hash of the highest base
\* block to the hash of the tip, whatever the order of the hashes.
C15_BaseBlocks ==
    \A t \in Threads :
        BaseResolved(t) =>
            LET req == request[t]
                failsWith(err) == ret[t] = "false" /\ errorRet[t] = err
                resolved ==
                    /\ errorRet[t] \notin BaseErrors(req)
                    /\ response[t].mnListDiffTip # NoDiff =>
                          /\ chain.tip # nullptr
                          /\ response[t].mnListDiffTip =
                                [ baseBlockHash |-> chain.hash[HighestBase(chain, req)],
                                  blockHash |-> chain.hash[chain.tip] ]
            IN  IF req.baseBlockHashesNb = 0
                THEN IF chain.blocks = {}
                     THEN failsWith(<<"genesis block not found">>)
                     ELSE resolved /\ loc[t].baseBlockIndexes = <<MainId(0)>>
                ELSE IF Offending(chain, req) # {}
                THEN LET hash == req.baseBlockHashes[FirstOffending(chain, req)]
                     IN  IF BlockOfHash(chain, hash) = nullptr
                         THEN failsWith(<<"block %s not found", hash>>)
                         ELSE failsWith(<<"block %s is not in the active chain", hash>>)
                ELSE resolved

\* the tip diff of a request that names its base blocks highest first starts
\* at the first of them
C15_Witness ==
    \E t \in Threads :
        /\ ret[t] = "true"
        /\ Len(request[t].baseBlockHashes) = 2
        /\ HeightOfHash(chain, request[t].baseBlockHashes[1]) >
                HeightOfHash(chain, request[t].baseBlockHashes[2])
        /\ response[t].mnListDiffTip.baseBlockHash = request[t].baseBlockHashes[1]
        /\ response[t].mnListDiffTip.blockHash = chain.hash[chain.tip]

\* the names of the calls BuildQuorumRotationInfo makes from the tip lookup on
StepNames ==
    << "Tip", "BuildSimplifiedMNListDiff", "LookupBlockIndex",
       "GetAncestor", "GetAncestor", "GetAncestor", "GetAncestor",
       "BuildSimplifiedMNListDiff", "GetSnapshotForBlock",
       "BuildSimplifiedMNListDiff", "GetSnapshotForBlock",
       "BuildSimplifiedMNListDiff", "GetSnapshotForBlock" >>
\* the calls thread t's build has made from the tip lookup on
BuildSteps(t) ==
    LET at == {i \in 1..Len(calls[t]) : calls[t][i] = <<"Tip">>}
    IN  IF at = {} THEN <<>>
        ELSE SubSeq(calls[t], CHOOSE i \in at : TRUE, Len(calls[t]))
\* the message of a failure at the n-th of these calls
StepError(steps, n) ==
    CASE n = 1 -> <<"tip block not found">>
      [] n = 3 -> <<"block not found">>
      [] n = 4 -> <<"Can not find block H">>
      [] n = 5 -> <<"Can not find block H-C">>
      [] n = 6 -> <<"Can not find block H-2C">>
      [] n = 7 -> <<"Can not find block H-3C">>
      [] n \in {2, 8, 10, 12} ->
            <<"BuildSimplifiedMNListDiff failed", steps[n][2], steps[n][3]>>
      [] n \in {9, 11, 13} -> <<"Can not find quorum snapshot at H-C">>

\* C16: from the tip lookup on, the calls of a build are an initial part of:
\* tip, tip diff, target lookup, ancestor H (of the target), H-C, H-2C, H-3C,
\* diff to H-C, snapshot of H-C, diff to H-2C, snapshot of H-2C, diff to H-3C,
\* snapshot of H-3C; a build that returned true made all thirteen; a build
\* that returned false made no call after the failing one, whose message it
\* returns; and no build makes one of them before its base blocks resolved.
C16_StepOrder ==
    \A t \in Threads :
        LET steps == BuildSteps(t)
            n == Len(steps)
            l == loc[t]
            hHeight == chain.nHeight[l.hBlockIndex]
        IN  /\ n <= 13
            /\ \A i \in 1..n : steps[i][1] = StepNames[i]
            /\ \A i \in 1..(Len(calls[t]) - n) :
                    calls[t][i][1] \in {"Genesis", "LookupBlockIndex", "Contains"}
            /\ n >= 3 => steps[3] = <<"LookupBlockIndex", request[t].blockRequestHash>>
            /\ n >= 4 => steps[4][2] = BlockOfHash(chain, request[t].blockRequestHash)
            /\ n >= 5 => steps[5] = <<"GetAncestor", chain.tip, hHeight - cycleLength>>
            /\ n >= 6 => steps[6] = <<"GetAncestor", l.pBlockHMinusCIndex,
                                      hHeight - 2 * cycleLength>>
            /\ n >= 7 => steps[7] = <<"GetAncestor", l.pBlockHMinusCIndex,
                                      hHeight - 3 * cycleLength>>
            /\ n >= 8 => steps[8][3] = chain.hash[l.pBlockHMinusCIndex]
            /\ n >= 9 => steps[9] = <<"GetSnapshotForBlock", llmqTypeInstantSend,
                                      l.pBlockHMinusCIndex>>
            /\ n >= 10 => steps[10][3] = chain.hash[l.pBlockHMinus2CIndex]
            /\ n >= 11 => steps[11] = <<"GetSnapshotForBlock", llmqTypeInstantSend,
                                        l.pBlockHMinus2CIndex>>
            /\ n >= 12 => steps[12][3] = chain.hash[l.pBlockHMinus3CIndex]
            /\ n >= 13 => steps[13] = <<"GetSnapshotForBlock", llmqTypeInstantSend,
                                        l.pBlockHMinus3CIndex>>
            /\ ret[t] = "true" => n = 13
            /\ (ret[t] = "false" /\ n > 0) => errorRet[t] = StepError(steps, n)
            /\ (ret[t] = "false" /\ n = 0) =>
                    errorRet[t] \in BaseErrors(request[t])
                        \cup {<<"invalid requested baseBlockHashesNb">>,
                              <<"missmatch requested baseBlockHashesNb and size(baseBlockHashes)">>}

\* the H-C snapshot was absent: the build stopped at its ninth call
C16_Witness ==
    \E t \in Threads :
        /\ ret[t] = "false"
        /\ Len(BuildSteps(t)) = 9
        /\ Last(calls[t]) = <<"GetSnapshotForBlock", llmqTypeInstantSend,
                              loc[t].pBlockHMinusCIndex>>
        /\ response[t].mnListDiffAtHMinusC # NoDiff
        /\ response[t].mnListDiffAtHMinus2C = NoDiff

\* thread t is inside BuildQuorumRotationInfo
InBuild(t) == call[t].kind = "build" /\ pc[t] \notin {"idle", "caller_lock_main", "ret"}

\* C17: a thread inside BuildQuorumRotationInfo holds cs_main, also after a
\* GetSnapshotForBlock it called has taken and released cs_main; the tip it
\* looked up is the tip of the chain, and the chain does not change in any
\* step taken while a thread is inside build.
C17_ChainView ==
    [][/\ \A t \in Threads :
            InBuild(t) =>
                /\ Holds(t, "cs_main")
                /\ loc[t].tipBlockIndex \in {nullptr, chain.tip}
       /\ (\E t \in Threads : InBuild(t)) => chain' = chain]_vars

\* after a reorganisation to the side branch the first build has come back
\* from a GetSnapshotForBlock that missed the cache and took cs_main a second
\* time, and still holds it
C17_Witness ==
    \E t \in Threads :
        /\ pc[t] = "b_got1"
        /\ chain.tip < 0
        /\ opsStarted = 1
        /\ snapCall[t].result # <<>>
        /\ locks["cs_main"] = [owner |-> t, depth |-> 1]

\* thread t takes a step of GetSnapshotForBlock
GetStepOf(t) ==
    /\ pc[t] \in {"g_lock_cache", "g_lookup", "g_lock_main", "g_lock_db", "g_read"}
    /\ pc'[t] # pc[t]

\* C18: no step removes a key from quorumSnapshotCache or from evoDb; a step
\* of GetSnapshotForBlock leaves evoDb as it is, and when it changes the cache
\* it adds its own key, which evoDb holds, with the value evoDb holds.
C18_NoEviction ==
    [][/\ DOMAIN quorumSnapshotCache \subseteq DOMAIN quorumSnapshotCache'
       /\ DOMAIN evoDb \subseteq DOMAIN evoDb'
       /\ \A t \in Threads :
            GetStepOf(t) =>
                /\ evoDb' = evoDb
                /\ quorumSnapshotCache' # quorumSnapshotCache =>
                      /\ CallKey(t) \in DOMAIN evoDb
                      /\ DOMAIN quorumSnapshotCache' =
                            DOMAIN quorumSnapshotCache \cup {CallKey(t)}
                      /\ quorumSnapshotCache'[CallKey(t)] = evoDb[CallKey(t)]]_vars

\* the cache holds a key added by a get and a key added by a store
C18_Witness ==
    \E t, u \in Threads :
        /\ call[t].kind = "get" /\ pc[t] = "ret" /\ snapCall[t].result # <<>>
        /\ call[u].kind = "store" /\ pc[u] = "ret"
        /\ CallKey(t) # CallKey(u)
        /\ {CallKey(t), CallKey(u)} \subseteq DOMAIN quorumSnapshotCache
        /\ opsStarted = 2

\* C19: when no thread is in a get or store, every key of quorumSnapshotCache
\* is a key of evoDb, with the same snapshot.
C19_CacheCoherent ==
    (\A t \in Threads : pc[t] \in {"idle", "ret"}) =>
        \A k \in DOMAIN quorumSnapshotCache :
            k \in DOMAIN evoDb /\ quorumSnapshotCache[k] = evoDb[k]

\* C20: when BuildQuorumRotationInfo has returned true, the blocks used for
\* H-C, H-2C and H-3C are ancestors of the block H, whose height is
\* creationHeight.
C20_SameBranch ==
    \A t \in Threads :
        ret[t] = "true" =>
            /\ chain.nHeight[loc[t].hBlockIndex] = response[t].creationHeight
            /\ \A i \in 1..3 : CycleBlock(loc[t], i) \in AncestorsOf(chain, loc[t].hBlockIndex)

=============================================================================
